---- MODULE Spec2Model ----
(***************************************************************************)
(* Model of doa/cssm.py: the Coherent Signal-Subspace Method (CSSM) for    *)
(* direction-of-arrival estimation.  One call of CSSM._process(X) is       *)
(* modelled as a sequential program whose position is pc; the numerical    *)
(* collaborators inherited from MUSIC (_compute_correlation_matrices,      *)
(* _compute_spatial_spectrum, _peaks1D, _subspace_decomposition) and       *)
(* np.linalg.inv are calls whose results are drawn nondeterministically.   *)
(* Python indices are kept 0-based (k, j, i, bin numbers, invalid); TLA+   *)
(* sequences are 1-based, so element k of a list l is l[k + 1].            *)
(***************************************************************************)
EXTENDS Integers, Sequences, FiniteSets, TLC

\* cssm.py:74  the literal 20 of the while condition
MAX_ITER == 20

\* ---- bounds of the model -------------------------------------------------
\* FFT bins are 0 .. NumBins-1; freq_bins is a subsequence of them
NumBins == 2
\* num_src ranges over 1 .. MaxSrc
MaxSrc == 2
\* candidate directions (grid points) are 0 .. NumDirs-1
NumDirs == 2
\* num_iter ranges over 0 .. MaxNumIter, and MAX_ITER + 1
MaxNumIter == 1
\* number of microphones (self.M) and of snapshots in X
M == 2
T == 2

VARIABLES
    iter,           \* self.iter (num_iter of __init__)
    num_src,        \* self.num_src
    freq_bins,      \* self.freq_bins
    num_freq,       \* self.num_freq
    X,              \* the argument of _process: X[m][bin][t]
    pc,             \* position in _process
    C_hat,          \* the correlation matrices ("unset" before line 51)
    k,              \* seeding loop index
    beta,           \* list of per-bin direction lists
    invalid,        \* list of invalid seeding positions
    desired_freq,   \* np.delete(self.freq_bins, invalid)
    f0,             \* reference frequency
    i,              \* iteration counter of the main loop
    j,              \* loop index of _coherent_sum
    R,              \* the terms summed so far by the running _coherent_sum
    P,              \* self.P, as the call that produced it
    src_idx,        \* self.src_idx
    error,          \* the exception that ended the call, "none" otherwise
    calls,          \* number of collaborator calls made so far, by kind
    src_of,         \* history: the spectrum self.src_idx was searched on
    singular_seen,  \* history: some augmented basis [Aj | B] was singular
    all_full,       \* history: every peak search returned >= num_src indices
    none_full_iter, \* history: no main-loop peak search returned >= num_src
    f0_used         \* history: reference frequencies passed on in the loop

vars == <<iter, num_src, freq_bins, num_freq, X, pc, C_hat, k, beta, invalid,
          desired_freq, f0, i, j, R, P, src_idx, error, calls, src_of,
          singular_seen, all_full, none_full_iter, f0_used>>

config == <<iter, num_src, freq_bins, num_freq, X>>

\* ---- helpers --------------------------------------------------------------
Bins == 0 .. (NumBins - 1)
Dirs == 0 .. (NumDirs - 1)

Range(s) == {s[p] : p \in 1 .. Len(s)}

Abs(x) == IF x < 0 THEN -x ELSE x

Min(a, b) == IF a < b THEN a ELSE b

\* strictly increasing sequences of FFT bins (the empty one included)
BinSeqs == {s \in UNION {[1 .. n -> Bins] : n \in 0 .. NumBins} :
                \A p \in 1 .. Len(s) : \A q \in 1 .. Len(s) : p < q => s[p] < s[q]}

\* what _peaks1D can leave in self.src_idx: up to ns distinct grid indices
\* (listed in grid order: nothing below depends on the order of the peaks)
PeakResults(ns) ==
    {s \in UNION {[1 .. n -> Dirs] : n \in 0 .. Min(ns, NumDirs)} :
        \A p \in 1 .. Len(s) : \A q \in 1 .. Len(s) : p < q => s[p] < s[q]}

\* the snapshots a frame can hold (entries stand for complex values whose
\* magnitude is Abs of the entry)
XRising == [m \in 1 .. M |-> [b \in Bins |-> [t \in 1 .. T |-> b]]]
XFalling == [m \in 1 .. M |-> [b \in Bins |-> [t \in 1 .. T |-> -(NumBins - b)]]]
XTie ==
    [m \in 1 .. M |-> [b \in Bins |-> [t \in 1 .. T |->
        IF m = 1 /\ t = 1 THEN b
        ELSE IF m = M /\ t = T THEN -(NumBins - 1 - b) ELSE 0]]]
Frames == {XRising, XFalling, XTie}

\* ---- line 68: np.sum(np.sum(abs(X[:,self.freq_bins,:]), axis=0), axis=1) --
RECURSIVE SumSensors(_, _, _, _)
SumSensors(x, b, t, m) ==
    IF m = 0 THEN 0 ELSE Abs(x[m][b][t]) + SumSensors(x, b, t, m - 1)

RECURSIVE SumTime(_, _, _)
SumTime(x, b, t) ==
    IF t = 0 THEN 0 ELSE SumSensors(x, b, t, M) + SumTime(x, b, t - 1)

Amplitude(x, fb) == [p \in 1 .. Len(fb) |-> SumTime(x, fb[p], T)]

\* np.argmax: 0-based position of the first maximum
ArgMax(a) ==
    (CHOOSE p \in 1 .. Len(a) :
        /\ \A q \in 1 .. Len(a) : a[q] <= a[p]
        /\ \A q \in 1 .. (p - 1) : a[q] < a[p]) - 1

\* a bug that would use the position as the bin
RefFreqPosition(x, fb) == ArgMax(Amplitude(x, fb))

\* lines 68-70
RefFreq(x, fb) == fb[ArgMax(Amplitude(x, fb)) + 1]

\* line 64: np.delete(self.freq_bins, invalid)
RECURSIVE Delete(_, _, _)
Delete(fb, inv, p) ==
    IF p > Len(fb) THEN <<>>
    ELSE IF (p - 1) \in Range(inv) THEN Delete(fb, inv, p + 1)
    ELSE <<fb[p]>> \o Delete(fb, inv, p + 1)

\* a bug that would simplify the condition to a single threshold
LoopCondSingle(it, n_iter, len, ns) == (it < n_iter \/ len < ns) /\ it < MAX_ITER

\* line 74: the while condition
LoopCond(it, n_iter, len, ns) == it < n_iter \/ (len < ns /\ it < MAX_ITER)

\* a bug that would keep only the valid bins (the commented-out else)
SeedAppendValid(b, src, ns) == IF Len(src) < ns THEN b ELSE Append(b, src)

\* lines 60-63: beta.append(self.src_idx), whatever its length
SeedAppend(b, src, ns) == Append(b, src)

RECURSIVE Repeat(_, _)
Repeat(src, n) == IF n = 0 THEN <<>> ELSE src \o Repeat(src, n - 1)

\* a bug that would tile along the wrong axis: one row of n copies
TileFlat(src, n) == <<Repeat(src, n)>>

\* a bug that would leave the last bin without a row
TileShort(src, n) == [r \in 1 .. (n - 1) |-> src]

\* line 84: np.tile(self.src_idx, (self.num_freq, 1))
Tile(src, n) == [r \in 1 .. n |-> src]

\* a bug that would let a singular basis through (NaN instead of an error)
InvNeverRaises(sing) == FALSE

\* line 96: np.linalg.inv raises LinAlgError on a singular matrix
InvRaises(sing) == sing

\* line 96: can [Aj | B] be singular?  With no direction it is the identity;
\* otherwise it depends on the mode vectors
SingularOutcomes(b) == IF Len(b) = 0 THEN {FALSE} ELSE BOOLEAN

NoCall == [kind |-> "none", idx |-> -1, freq |-> -1]

Bump(c, kinds) == [n \in DOMAIN c |-> IF n \in kinds THEN c[n] + 1 ELSE c[n]]

\* ---- the state after construction (lines 38-42) ---------------------------
Init ==
    /\ iter \in (0 .. MaxNumIter) \cup {MAX_ITER + 1}
    /\ num_src \in 1 .. MaxSrc
    /\ freq_bins \in BinSeqs
    /\ num_freq = Len(freq_bins)
    /\ X \in Frames
    /\ pc = "start"
    /\ C_hat = "unset"
    /\ k = 0
    /\ beta = <<>>
    /\ invalid = <<>>
    /\ desired_freq = <<>>
    /\ f0 = -1
    /\ i = 0
    /\ j = 0
    /\ R = <<>>
    /\ P = NoCall
    /\ src_idx = <<>>
    /\ error = "none"
    /\ calls = [corr |-> 0, spectrum |-> 0, peaks |-> 0, decomp |-> 0, focus |-> 0]
    /\ src_of = NoCall
    /\ singular_seen = FALSE
    /\ all_full = TRUE
    /\ none_full_iter = TRUE
    /\ f0_used = {}

\* lines 50-55
Start ==
    /\ pc = "start"
    /\ C_hat' = "estimated"
    /\ calls' = Bump(calls, {"corr"})
    /\ beta' = <<>>
    /\ invalid' = <<>>
    /\ k' = 0
    /\ pc' = "seed"
    /\ UNCHANGED <<config, desired_freq, f0, i, j, R, P, src_idx, error, src_of,
                   singular_seen, all_full, none_full_iter, f0_used>>

\* lines 56-63: one pass of the seeding loop
SeedBin ==
    /\ pc = "seed"
    /\ k < num_freq
    /\ \E res \in PeakResults(num_src) :
        /\ P' = [kind |-> "seed", idx |-> k, freq |-> freq_bins[k + 1]]
        /\ src_idx' = res
        /\ src_of' = P'
        /\ invalid' = IF Len(res) < num_src THEN Append(invalid, k) ELSE invalid
        /\ beta' = SeedAppend(beta, res, num_src)
        /\ all_full' = (all_full /\ Len(res) >= num_src)
    /\ calls' = Bump(calls, {"spectrum", "peaks"})
    /\ k' = k + 1
    /\ UNCHANGED <<config, pc, C_hat, desired_freq, f0, i, j, R, error,
                   singular_seen, none_full_iter, f0_used>>

\* lines 64-73: the end of the seeding loop, desired_freq, f0 and i = 0;
\* np.argmax of an empty array raises ValueError
SelectF0 ==
    /\ pc = "seed"
    /\ k >= num_freq
    /\ desired_freq' = Delete(freq_bins, invalid, 1)
    /\ IF Len(freq_bins) = 0
       THEN /\ pc' = "failed"
            /\ error' = "ValueError"
            /\ UNCHANGED <<f0, i>>
       ELSE /\ f0' = RefFreq(X, freq_bins)
            /\ i' = 0
            /\ pc' = "test"
            /\ UNCHANGED error
    /\ UNCHANGED <<config, C_hat, k, beta, invalid, j, R, P, src_idx, calls,
                   src_of, singular_seen, all_full, none_full_iter, f0_used>>

\* line 74: the while condition; entering the body starts _coherent_sum
\* (lines 76, 88)
LoopTest ==
    /\ pc = "test"
    /\ IF LoopCond(i, iter, Len(src_idx), num_src)
       THEN /\ pc' = "sum"
            /\ j' = 0
            /\ R' = <<>>
       ELSE /\ pc' = "done"
            /\ UNCHANGED <<j, R>>
    /\ UNCHANGED <<config, C_hat, k, beta, invalid, desired_freq, f0, i, P,
                   src_idx, error, calls, src_of, singular_seen, all_full,
                   none_full_iter, f0_used>>

\* lines 90-97: one pass of the loop of _coherent_sum
FocusBin ==
    /\ pc = "sum"
    /\ j < Len(freq_bins)
    /\ IF j + 1 > Len(beta)
       THEN \* beta[j]: IndexError
            /\ pc' = "failed"
            /\ error' = "IndexError"
            /\ UNCHANGED <<j, R, calls, singular_seen, f0_used>>
       ELSE IF Len(beta[j + 1]) > M
       THEN \* np.zeros with a negative dimension: ValueError
            /\ pc' = "failed"
            /\ error' = "ValueError"
            /\ f0_used' = f0_used \cup {f0}
            /\ UNCHANGED <<j, R, calls, singular_seen>>
       ELSE \E sing \in SingularOutcomes(beta[j + 1]) :
            /\ singular_seen' = (singular_seen \/ sing)
            /\ f0_used' = f0_used \cup {f0}
            /\ IF InvRaises(sing)
               THEN /\ pc' = "failed"
                    /\ error' = "LinAlgError"
                    /\ UNCHANGED <<j, R, calls>>
               ELSE /\ R' = Append(R, [j |-> j, k |-> freq_bins[j + 1],
                                       beta |-> beta[j + 1], f0 |-> f0])
                    /\ calls' = Bump(calls, {"focus"})
                    /\ j' = j + 1
                    /\ UNCHANGED <<pc, error>>
    /\ UNCHANGED <<config, C_hat, k, beta, invalid, desired_freq, f0, i, P,
                   src_idx, src_of, all_full, none_full_iter>>

\* line 98 and lines 78-85: the rest of the loop body
IterTail ==
    /\ pc = "sum"
    /\ j >= Len(freq_bins)
    /\ \E res \in PeakResults(num_src) :
        /\ P' = [kind |-> "iter", idx |-> i, freq |-> f0]
        /\ src_idx' = res
        /\ src_of' = P'
        /\ beta' = Tile(res, num_freq)
        /\ all_full' = (all_full /\ Len(res) >= num_src)
        /\ none_full_iter' = (none_full_iter /\ Len(res) < num_src)
    /\ calls' = Bump(calls, {"decomp", "spectrum", "peaks"})
    /\ f0_used' = f0_used \cup {f0}
    /\ i' = i + 1
    /\ pc' = "test"
    /\ UNCHANGED <<config, C_hat, k, invalid, desired_freq, f0, j, R, error,
                   singular_seen>>

Next == Start \/ SeedBin \/ SelectF0 \/ LoopTest \/ FocusBin \/ IterTail

Spec == Init /\ [][Next]_vars

\* _process is straight-line sequential code: it always takes its next step
FairSpec == Spec /\ WF_vars(Next)

\* ---- properties -----------------------------------------------------------
Terminal == pc \in {"done", "failed"}

\* the seeding pass is over and f0 has been chosen
Chosen == pc \in {"test", "sum", "done"} \/ (pc = "failed" /\ Len(freq_bins) > 0)

\* the stop condition as the specification words it
StopCondition == i >= iter /\ (Len(src_idx) >= num_src \/ i >= MAX_ITER)

\* Every call ends, by returning or by raising (checked under FairSpec)
Termination == <>Terminal

\* C1: a call that returns has run at least num_iter and at most 20 iterations
C1_IterationsWithinBudget == pc = "done" => (i >= iter /\ i <= MAX_ITER)

C3_StopsByIteration20 == (Len(invalid) > 0 /\ none_full_iter) => i <= MAX_ITER

\* C4: f0 is the bin of freq_bins with the largest summed magnitude, the
\* first such bin on a tie, and the one f0 passed to every focusing step and
\* every spectrum computation of the main loop
C4_ReferenceFrequency ==
    /\ [](Chosen =>
            /\ \E p \in 1 .. Len(freq_bins) :
                /\ freq_bins[p] = f0
                /\ \A q \in 1 .. Len(freq_bins) :
                       SumTime(X, freq_bins[q], T) <= SumTime(X, freq_bins[p], T)
                /\ \A q \in 1 .. (p - 1) :
                       SumTime(X, freq_bins[q], T) < SumTime(X, freq_bins[p], T)
            /\ f0_used \subseteq {f0}
            /\ \A p \in 1 .. Len(R) : R[p].f0 = f0
            /\ (P.kind = "iter" => P.freq = f0))
    /\ [][Chosen => f0' = f0]_vars

\* a tie between two bins went to the first, and the loop has used it
C4_Witness ==
    /\ pc = "done"
    /\ i >= 1
    /\ X = XTie
    /\ Len(freq_bins) = 2
    /\ f0 = freq_bins[1]
    /\ f0_used = {f0}

\* C5: a singular augmented basis ends the call with an error on the spot:
\* the failing bin and the later ones are not combined, and no decomposition,
\* spectrum, peak search, beta update or iteration follows
C5_SingularAborts ==
    /\ [](singular_seen =>
            /\ pc = "failed"
            /\ error = "LinAlgError"
            /\ Len(R) = j
            /\ j < Len(freq_bins))
    /\ [][singular_seen =>
            /\ calls' = calls
            /\ R' = R
            /\ beta' = beta
            /\ src_idx' = src_idx
            /\ P' = P
            /\ i' = i
            /\ pc' = pc]_vars

\* the second bin of a later iteration was singular
C5_Witness ==
    singular_seen /\ pc = "failed" /\ i >= 1 /\ Len(R) = 1 /\ Len(freq_bins) = 2

\* C6: with no active bin the call fails with EmptyFrequencySet before any
\* collaborator is invoked
C6_EmptyFailsFast ==
    num_freq = 0 =>
        /\ C_hat = "unset"
        /\ \A n \in DOMAIN calls : calls[n] = 0
        /\ pc # "done"
        /\ (pc = "failed" => error = "EmptyFrequencySet")

\* C7: a call that returns leaves in src_idx and P the peaks and the spectrum
\* of its last main-loop iteration, computed at f0
C7_OutputOfFinalIteration ==
    pc = "done" =>
        /\ src_of = [kind |-> "iter", idx |-> i - 1, freq |-> f0]
        /\ P = src_of

C9_BetaLength ==
    /\ \A r \in 1 .. Len(beta) : Len(beta[r]) <= num_src
    /\ \A p \in 1 .. Len(R) : Len(R[p].beta) <= num_src

\* a focusing step of a later iteration used a full list of two directions
C9_Witness ==
    pc = "sum" /\ i >= 1 /\ num_src = 2 /\ Len(R) >= 1 /\ Len(R[1].beta) = 2

\* C10: once an iteration has completed, beta has one row per active bin,
\* each equal to src_idx, and every later focusing step uses that one list
C10_Broadcast ==
    i >= 1 =>
        /\ Len(beta) = num_freq
        /\ \A r \in 1 .. Len(beta) : beta[r] = src_idx
        /\ (pc \in {"sum", "failed"} => \A p \in 1 .. Len(R) : R[p].beta = src_idx)

\* two bins whose seeds differed are focused with one common list
C10_Witness ==
    /\ pc = "sum"
    /\ i >= 1
    /\ Len(invalid) = 1
    /\ Len(R) = 2
    /\ R[1].beta = R[2].beta
    /\ Len(R[1].beta) >= 1

====
